---- MODULE Spec2Model ----
(***************************************************************************)
(* A model of the style cascade (src/src/css.rs, src/src/style.rs) and of  *)
(* the block layout algorithm (src/src/layout.rs).                         *)
(*                                                                         *)
(* Numbers.  The program computes in f32.  Every f32 of the model is an    *)
(* integer multiple of 1/PxUnit px and is represented by that integer, so  *)
(* F32(100) is 100px.  The inputs are whole pixel amounts; the only        *)
(* division of the program is `underflow / 2.0`, which is exact on them,   *)
(* as are the sums and differences, so the representation loses nothing.   *)
(*                                                                         *)
(* Strings are TLA+ strings, except the `class` attribute and the class    *)
(* names of selectors, which are sequences of one-character strings,       *)
(* because the program splits the attribute at spaces.                     *)
(*                                                                         *)
(* Option<T> is a sequence of length 0 (None) or 1 (Some(x)), which is     *)
(* also what Option::iter() walks over.                                    *)
(***************************************************************************)
EXTENDS Integers, Sequences, FiniteSets, TLC

VARIABLES
    pc,                \* the stage of the pipeline reached (see each action)
    elem,              \* style.rs: the ElementData being matched or styled
    selector,          \* style.rs: the SimpleSelector being matched
    stylesheet,        \* css.rs: StyleSheet.rules
    result,            \* the value returned by the function last applied
    dom_root,          \* dom.rs: the document's root Node
    style_root,        \* style.rs: the root StyledNode
    layout_root,       \* layout.rs: the root LayoutBox
    viewport,          \* main.rs: the Dimensions handed to layout()
    layouts            \* number of calls of layout() made on layout_root

vars == <<pc, elem, selector, stylesheet, result, dom_root, style_root,
          layout_root, viewport, layouts>>

Unused == "unused"

----------------------------------------------------------------------------
(* Bounds of the model.                                                    *)

MaxClassAttrLen == 3   \* characters of a `class` attribute
MaxClasses == 2        \* class names of one selector
CascadeMaxClasses == 1 \* class names of one selector of a multi-selector rule
MaxSelectors == 2      \* selectors of one rule
MaxDeclarations == 2   \* declarations of one rule
MaxRules == 2          \* rules of a stylesheet
MaxDeclared == 4       \* properties declared by the style of a box
SmallLen == 1          \* the lengths of a style, in px
BigLen == 4
NarrowWidth == 3       \* the content widths of a containing block, in px
WideWidth == 8
MaxNodes == 4          \* styled nodes of a styled tree
MaxStackChildren == 3  \* children of the root of a flat styled tree
MaxLayouts == 2        \* calls of layout() on one box tree
MaxDomDepth == 2       \* levels below the root of a document
MaxHeightNodes == 3    \* styled nodes of a styled tree with declared heights

ViewportWidth == 800   \* main.rs: viewport.content.width
ViewportHeight == 600  \* main.rs: viewport.content.height

PxUnit == 2            \* an f32 is kept as a multiple of 1/2 px (underflow / 2.0)

F32(n) == n * PxUnit

----------------------------------------------------------------------------
(* Option, HashMap                                                         *)

None == <<>>
Some(x) == <<x>>

\* HashMap::get
Get(m, k) == IF k \in DOMAIN m THEN Some(m[k]) ELSE None

\* HashMap::insert
Insert(m, k, v) == [x \in (DOMAIN m) \cup {k} |-> IF x = k THEN v ELSE m[x]]

EmptyMap == [x \in {} |-> 0]

----------------------------------------------------------------------------
(* css.rs: Value                                                           *)

Keyword(s) == [t |-> "Keyword", s |-> s, n |-> 0]
Length(n) == [t |-> "Length", s |-> "px", n |-> n]
ColorValue(c) == [t |-> "ColorValue", s |-> c, n |-> 0]

\* Value::to_px
to_px(v) == IF v.t = "Length" THEN v.n ELSE 0

----------------------------------------------------------------------------
(* css.rs: Specificity and its ordering (the Ord of a 3-tuple of usize)    *)

CmpNat(a, b) == IF a < b THEN "Less" ELSE IF a = b THEN "Equal" ELSE "Greater"

CmpSpecificity(a, b) ==
    IF a[1] # b[1] THEN CmpNat(a[1], b[1])
    ELSE IF a[2] # b[2] THEN CmpNat(a[2], b[2])
    ELSE CmpNat(a[3], b[3])

\* a faulty variant of specificity: the class count is compared first
specificity_classFirst(s) == <<Len(s.class), Len(s.id), Len(s.tag_name)>>

\* Selector::specificity
specificity(s) == <<Len(s.id), Len(s.class), Len(s.tag_name)>>

----------------------------------------------------------------------------
(* style.rs: ElementData::id, ElementData::classes                         *)

id(e) == Get(e.attributes, "id")

\* the index of the first space of s, 0 if there is none
RECURSIVE FirstSpace(_, _)
FirstSpace(s, i) ==
    IF i > Len(s) THEN 0
    ELSE IF s[i] = " " THEN i
    ELSE FirstSpace(s, i + 1)

\* str::split(' '): the pieces between the spaces, empty pieces included
RECURSIVE Split(_)
Split(s) ==
    LET i == FirstSpace(s, 1)
    IN  IF i = 0 THEN <<s>>
        ELSE <<SubSeq(s, 1, i - 1)>> \o Split(SubSeq(s, i + 1, Len(s)))

SeqToSet(q) == {q[i] : i \in 1..Len(q)}

\* a faulty variant of classes: a missing class attribute is read as one empty class
classes_missingIsEmptyName(e) ==
    IF "class" \in DOMAIN e.attributes
    THEN SeqToSet(Split(e.attributes["class"]))
    ELSE {<<>>}

classes(e) ==
    IF "class" \in DOMAIN e.attributes
    THEN SeqToSet(Split(e.attributes["class"]))
    ELSE {}

----------------------------------------------------------------------------
(* style.rs: matches_simple_selector, matches                              *)

\* a faulty variant of matches_simple_selector: one class of the selector suffices
matches_simple_selector_anyClass(e, sel) ==
    IF \E i \in 1..Len(sel.tag_name) : e.tag_name # sel.tag_name[i] THEN FALSE
    ELSE IF \E i \in 1..Len(sel.id) : id(e) # Some(sel.id[i]) THEN FALSE
    ELSE IF sel.class # <<>>
            /\ \A i \in 1..Len(sel.class) : sel.class[i] \notin classes(e)
         THEN FALSE
    ELSE TRUE

matches_simple_selector(e, sel) ==
    IF \E i \in 1..Len(sel.tag_name) : e.tag_name # sel.tag_name[i] THEN FALSE
    ELSE IF \E i \in 1..Len(sel.id) : id(e) # Some(sel.id[i]) THEN FALSE
    ELSE IF \E i \in 1..Len(sel.class) : sel.class[i] \notin classes(e) THEN FALSE
    ELSE TRUE

matches(e, sel) == matches_simple_selector(e, sel)

----------------------------------------------------------------------------
(* style.rs: match_rule, matching_rules                                    *)

\* the index of the first selector of sels, from i on, that matches e; 0 if none
RECURSIVE FindMatching(_, _, _)
FindMatching(e, sels, i) ==
    IF i > Len(sels) THEN 0
    ELSE IF matches(e, sels[i]) THEN i
    ELSE FindMatching(e, sels, i + 1)

\* match_rule: Option<MatchedRule>, a MatchedRule being (Specificity, &Rule)
match_rule(e, rule) ==
    LET i == FindMatching(e, rule.selectors, 1)
    IN  IF i = 0 THEN None
        ELSE Some([specificity |-> specificity(rule.selectors[i]), rule |-> rule])

\* matching_rules: filter_map over the rules, in stylesheet order
RECURSIVE matching_rules(_, _)
matching_rules(e, rules) ==
    IF rules = <<>> THEN <<>>
    ELSE match_rule(e, Head(rules)) \o matching_rules(e, Tail(rules))

----------------------------------------------------------------------------
(* style.rs: specified_values                                              *)

\* q is sorted; x goes after every element that is not greater than x
RECURSIVE InsertAfterEqual(_, _)
InsertAfterEqual(q, x) ==
    IF q = <<>> THEN <<x>>
    ELSE IF CmpSpecificity(Head(q).specificity, x.specificity) = "Greater"
         THEN <<x>> \o q
         ELSE <<Head(q)>> \o InsertAfterEqual(Tail(q), x)

\* q is sorted; x goes before every element that is not less than x
RECURSIVE InsertBeforeEqual(_, _)
InsertBeforeEqual(q, x) ==
    IF q = <<>> THEN <<x>>
    ELSE IF CmpSpecificity(Head(q).specificity, x.specificity) = "Less"
         THEN <<Head(q)>> \o InsertBeforeEqual(Tail(q), x)
         ELSE <<x>> \o q

RECURSIVE SortFrom(_, _)
SortFrom(done, rest) ==
    IF rest = <<>> THEN done
    ELSE SortFrom(InsertAfterEqual(done, Head(rest)), Tail(rest))

RECURSIVE SortFromUnstable(_, _)
SortFromUnstable(done, rest) ==
    IF rest = <<>> THEN done
    ELSE SortFromUnstable(InsertBeforeEqual(done, Head(rest)), Tail(rest))

\* a faulty variant of sort_by_specificity: rules of equal specificity change places
sort_by_specificity_unstable(q) == SortFromUnstable(<<>>, q)

\* rules.sort_by(|&(a, _), &(b, _)| a.cmp(&b)): the stable ascending sort
sort_by_specificity(q) == SortFrom(<<>>, q)

\* for declaration in &rule.declarations { values.insert(name, value) }
RECURSIVE InsertDeclarations(_, _)
InsertDeclarations(values, decls) ==
    IF decls = <<>> THEN values
    ELSE InsertDeclarations(
            Insert(values, Head(decls).name, Head(decls).value), Tail(decls))

\* for (_, rule) in rules { ... }
RECURSIVE ApplyRules(_, _)
ApplyRules(values, rules) ==
    IF rules = <<>> THEN values
    ELSE ApplyRules(
            InsertDeclarations(values, Head(rules).rule.declarations), Tail(rules))

\* a faulty variant of specified_values: the matching rules are applied in stylesheet order
specified_values_unsorted(e, rules) ==
    ApplyRules(EmptyMap, matching_rules(e, rules))

specified_values(e, rules) ==
    ApplyRules(EmptyMap, sort_by_specificity(matching_rules(e, rules)))

----------------------------------------------------------------------------
(* Inputs of the selector matcher and of the cascade                       *)

SeqsUpTo(S, n) == UNION {[1..k -> S] : k \in 0..n}

Options(S) == {None} \cup {Some(x) : x \in S}

TagNames == {"div", "p"}
Ids == {"a", "b"}
ClassChars == {"a", "b", " "}
ClassNames == {<<>>, <<"a">>, <<"b">>}

ClassAttrs == SeqsUpTo(ClassChars, MaxClassAttrLen)

\* dom.rs AttrMap: the maps that give some of the attributes id and class
AttrMaps(ids, classAttrs) ==
    {[k \in K |-> IF k = "id" THEN i ELSE c] :
        K \in SUBSET {"id", "class"}, i \in ids, c \in classAttrs}

Elements(tags, ids, classAttrs) ==
    {[tag_name |-> t, attributes |-> a] : t \in tags, a \in AttrMaps(ids, classAttrs)}

Selectors(tags, ids, names, maxClasses) ==
    [tag_name : Options(tags), id : Options(ids), class : SeqsUpTo(names, maxClasses)]

\* the selector lists parse_selectors returns: highest specificity first
SelectorLists(sels) ==
    {l \in SeqsUpTo(sels, MaxSelectors) \ {<<>>} :
        \A i \in 1..Len(l) : \A j \in i..Len(l) :
            CmpSpecificity(specificity(l[i]), specificity(l[j])) # "Less"}

PropertyNames == {"color", "width"}

\* The value of the d-th declaration of the r-th rule is (10 r + d) px: the
\* declarations of a stylesheet have pairwise different values, so that a
\* value of the property map names the declaration it was taken from.
DeclarationValue(r, d) == Length(F32(10 * r + d))

RuleShapes(lists) ==
    {[selectors |-> l, names |-> n] :
        l \in lists, n \in SeqsUpTo(PropertyNames, MaxDeclarations) \ {<<>>}}

StyleSheetOf(shapes) ==
    [r \in 1..Len(shapes) |->
        [selectors |-> shapes[r].selectors,
         declarations |->
            [d \in 1..Len(shapes[r].names) |->
                [name |-> shapes[r].names[d], value |-> DeclarationValue(r, d)]]]]

StyleSheets(lists) ==
    {StyleSheetOf(shapes) : shapes \in SeqsUpTo(RuleShapes(lists), MaxRules)}

CascadeElements == Elements(TagNames, {"a"}, {<<"a">>})

CascadeSelectors == Selectors({"p"}, {"a"}, {<<"a">>}, CascadeMaxClasses)

\* single-selector rules, with selectors of up to MaxClasses + 1 classes
SpecificitySelectors == Selectors({"p"}, {"a"}, {<<"a">>}, MaxClasses + 1)

----------------------------------------------------------------------------
(* The selector matcher applied to an element and a simple selector        *)

InitMatch ==
    /\ pc = "matcher"
    /\ elem \in Elements(TagNames, Ids, ClassAttrs)
    /\ selector \in Selectors(TagNames, Ids, ClassNames, MaxClasses)
    /\ stylesheet = Unused
    /\ result = Unused
    /\ dom_root = Unused
    /\ style_root = Unused
    /\ layout_root = Unused
    /\ viewport = Unused
    /\ layouts = 0

MatchesSimpleSelector ==
    /\ pc = "matcher"
    /\ pc' = "matched"
    /\ result' = matches_simple_selector(elem, selector)
    /\ UNCHANGED <<elem, selector, stylesheet, dom_root, style_root,
                   layout_root, viewport, layouts>>

NextMatch == MatchesSimpleSelector

SpecMatch == InitMatch /\ [][NextMatch]_vars

----------------------------------------------------------------------------
(* The cascade applied to an element and a stylesheet                      *)

InitCascadeWith(elems, sheets) ==
    /\ pc = "cascade"
    /\ elem \in elems
    /\ selector = Unused
    /\ stylesheet \in sheets
    /\ result = Unused
    /\ dom_root = Unused
    /\ style_root = Unused
    /\ layout_root = Unused
    /\ viewport = Unused
    /\ layouts = 0

InitCascade ==
    InitCascadeWith(CascadeElements, StyleSheets(SelectorLists(CascadeSelectors)))

\* stylesheets whose rules have one selector each
InitSpecificity ==
    InitCascadeWith(CascadeElements,
                    StyleSheets({<<s>> : s \in SpecificitySelectors}))

SpecifiedValues ==
    /\ pc = "cascade"
    /\ pc' = "specified"
    /\ result' = specified_values(elem, stylesheet)
    /\ UNCHANGED <<elem, selector, stylesheet, dom_root, style_root,
                   layout_root, viewport, layouts>>

NextCascade == SpecifiedValues

SpecCascade == InitCascade /\ [][NextCascade]_vars

SpecSpecificity == InitSpecificity /\ [][NextCascade]_vars

----------------------------------------------------------------------------
(* style.rs: StyledNode.  A styled node is the record                      *)
(*   [specified_values |-> PropertyMap, children |-> sequence of nodes];   *)
(* its `node` reference to the document is read by no function modelled.   *)

\* StyledNode::value
value(style, name) == Get(style.specified_values, name)

\* StyledNode::lookup
lookup(style, name, fallback_name, default) ==
    IF value(style, name) # None THEN value(style, name)[1]
    ELSE IF value(style, fallback_name) # None THEN value(style, fallback_name)[1]
    ELSE default

\* a faulty variant of display: a node without a display declaration is a block
display_defaultBlock(style) ==
    LET v == value(style, "display")
    IN  IF v # None /\ v[1].t = "Keyword"
        THEN IF v[1].s = "block" THEN "Block"
             ELSE IF v[1].s = "none" THEN "None"
             ELSE "Inline"
        ELSE "Block"

\* StyledNode::display
display(style) ==
    LET v == value(style, "display")
    IN  IF v # None /\ v[1].t = "Keyword"
        THEN IF v[1].s = "block" THEN "Block"
             ELSE IF v[1].s = "none" THEN "None"
             ELSE "Inline"
        ELSE "Inline"

----------------------------------------------------------------------------
(* layout.rs: Dimensions, Rect, EdgeSizes, LayoutBox, BoxType              *)

DefaultRect == [x |-> 0, y |-> 0, width |-> 0, height |-> 0]

DefaultEdgeSizes == [left |-> 0, right |-> 0, top |-> 0, bottom |-> 0]

DefaultDimensions ==
    [content |-> DefaultRect, padding |-> DefaultEdgeSizes,
     border |-> DefaultEdgeSizes, margin |-> DefaultEdgeSizes]

\* Rect::expanded_by
expanded_by(rect, edge) ==
    [x |-> rect.x - edge.left,
     y |-> rect.y - edge.top,
     width |-> rect.width + edge.left + edge.right,
     height |-> rect.height + edge.top + edge.bottom]

\* Dimensions::padding_box, border_box, margin_box
padding_box(d) == expanded_by(d.content, d.padding)
border_box(d) == expanded_by(padding_box(d), d.border)
margin_box(d) == expanded_by(border_box(d), d.margin)

\* BoxType: the box kind and, but for AnonymousBlock, the styled node
BlockNode(style_node) == [t |-> "BlockNode", node |-> Some(style_node)]
InlineNode(style_node) == [t |-> "InlineNode", node |-> Some(style_node)]
AnonymousBlock == [t |-> "AnonymousBlock", node |-> None]

\* LayoutBox::new
LayoutBox_new(box_type) ==
    [box_type |-> box_type, dimensions |-> DefaultDimensions, children |-> <<>>]

\* a panic!: the value of a function that aborts
Panic(message) == [panic |-> message]
IsPanic(v) == "panic" \in DOMAIN v

\* LayoutBox::get_style_node
get_style_node(box) ==
    IF box.box_type.t = "AnonymousBlock"
    THEN Panic("Anonymous block box has no style node")
    ELSE box.box_type.node[1]

----------------------------------------------------------------------------
(* layout.rs: build_layout_tree, get_inline_container                      *)

\* a faulty variant of get_inline_container: a new anonymous box for every inline child
get_inline_container_alwaysNew(box) ==
    IF box.box_type.t \in {"InlineNode", "AnonymousBlock"} THEN box
    ELSE [box EXCEPT !.children = Append(@, LayoutBox_new(AnonymousBlock))]

\* LayoutBox::get_inline_container: self after the call; the container it
\* returns is self for an inline or anonymous box, else the last child of self
get_inline_container(box) ==
    IF box.box_type.t \in {"InlineNode", "AnonymousBlock"} THEN box
    ELSE IF box.children # <<>>
            /\ box.children[Len(box.children)].box_type.t = "AnonymousBlock"
         THEN box
         ELSE [box EXCEPT !.children = Append(@, LayoutBox_new(AnonymousBlock))]

\* root.get_inline_container().children.push(child)
push_to_inline_container(root, child) ==
    LET self == get_inline_container(root)
    IN  IF self.box_type.t \in {"InlineNode", "AnonymousBlock"}
        THEN [self EXCEPT !.children = Append(@, child)]
        ELSE [self EXCEPT !.children[Len(self.children)].children = Append(@, child)]

\* a faulty variant of push_child: a display:none child gets an inline box
RECURSIVE build_layout_tree(_)
push_child_noneAsInline(root, child) ==
    IF display(child) = "Block"
    THEN [root EXCEPT !.children = Append(@, build_layout_tree(child))]
    ELSE IF display(child) = "Inline"
    THEN push_to_inline_container(root, build_layout_tree(child))
    ELSE push_to_inline_container(root, LayoutBox_new(InlineNode(child)))

\* a faulty variant of push_child: a display:none child ends the run of inline children
push_child_noneEndsRun(root, child) ==
    IF display(child) = "Block"
    THEN [root EXCEPT !.children = Append(@, build_layout_tree(child))]
    ELSE IF display(child) = "Inline"
    THEN push_to_inline_container(root, build_layout_tree(child))
    ELSE IF root.box_type.t = "BlockNode"
    THEN [root EXCEPT !.children = Append(@, LayoutBox_new(AnonymousBlock))]
    ELSE root

\* one turn of the loop over style_node.children
push_child(root, child) ==
    IF display(child) = "Block"
    THEN [root EXCEPT !.children = Append(@, build_layout_tree(child))]
    ELSE IF display(child) = "Inline"
    THEN push_to_inline_container(root, build_layout_tree(child))
    ELSE root

\* for child in &style_node.children { ... }, from the i-th child on
RECURSIVE push_children(_, _, _)
push_children(root, children, i) ==
    IF i > Len(children) THEN root
    ELSE push_children(push_child(root, children[i]), children, i + 1)

\* a faulty variant of build_layout_tree: a display:none root gets an inline box
build_layout_tree_noneRootInline(style_node) ==
    push_children(
        LayoutBox_new(IF display(style_node) = "Block"
                      THEN BlockNode(style_node)
                      ELSE InlineNode(style_node)),
        style_node.children, 1)

\* layout::build_layout_tree
build_layout_tree(style_node) ==
    IF display(style_node) = "None" THEN Panic("Root node has display: none.")
    ELSE push_children(
            LayoutBox_new(IF display(style_node) = "Block"
                          THEN BlockNode(style_node)
                          ELSE InlineNode(style_node)),
            style_node.children, 1)

----------------------------------------------------------------------------
(* layout.rs: calculate_block_width                                        *)

auto == Keyword("auto")
zero == Length(0)

\* the values calculate_block_width reads from the style
width_of(style) == IF value(style, "width") # None THEN value(style, "width")[1] ELSE auto
margin_left_of(style) == lookup(style, "margin-left", "margin", zero)
margin_right_of(style) == lookup(style, "margin-right", "margin", zero)
border_left_of(style) == lookup(style, "border-left-width", "border-width", zero)
border_right_of(style) == lookup(style, "border-right-width", "border-width", zero)
padding_left_of(style) == lookup(style, "padding-left-width", "padding", zero)
padding_right_of(style) == lookup(style, "padding-right-width", "padding", zero)

\* let total = sum([...].iter().map(|v| v.to_px()))
total_of(style) ==
    to_px(margin_left_of(style)) + to_px(margin_right_of(style))
    + to_px(border_left_of(style)) + to_px(border_right_of(style))
    + to_px(padding_left_of(style)) + to_px(padding_right_of(style))
    + to_px(width_of(style))

\* if width != auto && total > containing_block.content.width { ... }
margins_after_overflow_check(style, containing_block) ==
    LET over == width_of(style) # auto
                /\ total_of(style) > containing_block.content.width
    IN  [left |-> IF over /\ margin_left_of(style) = auto
                  THEN Length(0) ELSE margin_left_of(style),
         right |-> IF over /\ margin_right_of(style) = auto
                   THEN Length(0) ELSE margin_right_of(style)]

\* the arm of the match that is taken, named by its tuple pattern
width_branch(width, margin_left, margin_right) ==
    IF width = auto THEN "(true, _, _)"
    ELSE IF margin_left # auto /\ margin_right # auto THEN "(false, false, false)"
    ELSE IF margin_left # auto /\ margin_right = auto THEN "(false, false, true)"
    ELSE IF margin_left = auto /\ margin_right # auto THEN "(false, true, false)"
    ELSE "(false, true, true)"

\* a faulty variant of resolve_width: two auto margins both take the whole underflow
resolve_width_noHalving(width, margin_left, margin_right, underflow) ==
    LET branch == width_branch(width, margin_left, margin_right)
    IN  IF branch = "(false, false, false)"
        THEN [width |-> width, margin_left |-> margin_left,
              margin_right |-> Length(to_px(margin_right) + underflow)]
        ELSE IF branch = "(false, false, true)"
        THEN [width |-> width, margin_left |-> margin_left,
              margin_right |-> Length(underflow)]
        ELSE IF branch = "(false, true, false)"
        THEN [width |-> width, margin_left |-> Length(underflow),
              margin_right |-> margin_right]
        ELSE IF branch = "(true, _, _)"
        THEN LET ml == IF margin_left = auto THEN Length(0) ELSE margin_left
                 mr == IF margin_right = auto THEN Length(0) ELSE margin_right
             IN  IF underflow >= 0
                 THEN [width |-> Length(underflow), margin_left |-> ml,
                       margin_right |-> mr]
                 ELSE [width |-> Length(0), margin_left |-> ml,
                       margin_right |-> Length(to_px(mr) + underflow)]
        ELSE [width |-> width, margin_left |-> Length(underflow),
              margin_right |-> Length(underflow)]

\* a faulty variant of resolve_width: over-constrained values are left as they are
resolve_width_noAbsorb(width, margin_left, margin_right, underflow) ==
    LET branch == width_branch(width, margin_left, margin_right)
    IN  IF branch = "(false, false, false)"
        THEN [width |-> width, margin_left |-> margin_left,
              margin_right |-> margin_right]
        ELSE IF branch = "(false, false, true)"
        THEN [width |-> width, margin_left |-> margin_left,
              margin_right |-> Length(underflow)]
        ELSE IF branch = "(false, true, false)"
        THEN [width |-> width, margin_left |-> Length(underflow),
              margin_right |-> margin_right]
        ELSE IF branch = "(true, _, _)"
        THEN LET ml == IF margin_left = auto THEN Length(0) ELSE margin_left
                 mr == IF margin_right = auto THEN Length(0) ELSE margin_right
             IN  IF underflow >= 0
                 THEN [width |-> Length(underflow), margin_left |-> ml,
                       margin_right |-> mr]
                 ELSE [width |-> Length(0), margin_left |-> ml,
                       margin_right |-> Length(to_px(mr) + underflow)]
        ELSE [width |-> width, margin_left |-> Length(underflow \div PxUnit),
              margin_right |-> Length(underflow \div PxUnit)]

\* a faulty variant of resolve_width: an auto width takes a negative underflow
resolve_width_negativeWidth(width, margin_left, margin_right, underflow) ==
    LET branch == width_branch(width, margin_left, margin_right)
    IN  IF branch = "(false, false, false)"
        THEN [width |-> width, margin_left |-> margin_left,
              margin_right |-> Length(to_px(margin_right) + underflow)]
        ELSE IF branch = "(false, false, true)"
        THEN [width |-> width, margin_left |-> margin_left,
              margin_right |-> Length(underflow)]
        ELSE IF branch = "(false, true, false)"
        THEN [width |-> width, margin_left |-> Length(underflow),
              margin_right |-> margin_right]
        ELSE IF branch = "(true, _, _)"
        THEN LET ml == IF margin_left = auto THEN Length(0) ELSE margin_left
                 mr == IF margin_right = auto THEN Length(0) ELSE margin_right
             IN  [width |-> Length(underflow), margin_left |-> ml,
                  margin_right |-> mr]
        ELSE [width |-> width, margin_left |-> Length(underflow \div PxUnit),
              margin_right |-> Length(underflow \div PxUnit)]

\* match (width == auto, margin_left == auto, margin_right == auto) { ... }
\* underflow / 2.0 is exact: underflow is a whole number of px, that is an
\* even number of the model's 1/PxUnit px.
resolve_width(width, margin_left, margin_right, underflow) ==
    LET branch == width_branch(width, margin_left, margin_right)
    IN  IF branch = "(false, false, false)"
        THEN [width |-> width, margin_left |-> margin_left,
              margin_right |-> Length(to_px(margin_right) + underflow)]
        ELSE IF branch = "(false, false, true)"
        THEN [width |-> width, margin_left |-> margin_left,
              margin_right |-> Length(underflow)]
        ELSE IF branch = "(false, true, false)"
        THEN [width |-> width, margin_left |-> Length(underflow),
              margin_right |-> margin_right]
        ELSE IF branch = "(true, _, _)"
        THEN LET ml == IF margin_left = auto THEN Length(0) ELSE margin_left
                 mr == IF margin_right = auto THEN Length(0) ELSE margin_right
             IN  IF underflow >= 0
                 THEN [width |-> Length(underflow), margin_left |-> ml,
                       margin_right |-> mr]
                 ELSE [width |-> Length(0), margin_left |-> ml,
                       margin_right |-> Length(to_px(mr) + underflow)]
        ELSE [width |-> width, margin_left |-> Length(underflow \div PxUnit),
              margin_right |-> Length(underflow \div PxUnit)]

\* LayoutBox::calculate_block_width
calculate_block_width(box, containing_block) ==
    IF IsPanic(get_style_node(box)) THEN get_style_node(box)
    ELSE
    LET style == get_style_node(box)
        margins == margins_after_overflow_check(style, containing_block)
        underflow == containing_block.content.width - total_of(style)
        r == resolve_width(width_of(style), margins.left, margins.right, underflow)
    IN  [box EXCEPT
            !.dimensions.content.width = to_px(r.width),
            !.dimensions.padding.left = to_px(padding_left_of(style)),
            !.dimensions.padding.right = to_px(padding_right_of(style)),
            !.dimensions.border.left = to_px(border_left_of(style)),
            !.dimensions.border.right = to_px(border_right_of(style)),
            !.dimensions.margin.left = to_px(r.margin_left),
            !.dimensions.margin.right = to_px(r.margin_right)]

----------------------------------------------------------------------------
(* layout.rs: calculate_block_position, layout_block_children,             *)
(* calculate_block_height, layout_block, layout                            *)

\* a faulty variant of calculate_block_position: the top edges are left out of y
calculate_block_position_noTopEdges(box, containing_block) ==
    LET style == get_style_node(box)
        d1 == [box.dimensions EXCEPT
                !.margin.top = to_px(lookup(style, "margin-top", "margin", zero)),
                !.margin.bottom = to_px(lookup(style, "margin-bottom", "margin", zero)),
                !.border.top =
                    to_px(lookup(style, "border-top-width", "border-width", zero)),
                !.border.bottom =
                    to_px(lookup(style, "border-bottom-width", "border-width", zero)),
                !.padding.top = to_px(lookup(style, "padding-top", "padding", zero)),
                !.padding.bottom =
                    to_px(lookup(style, "padding-bottom", "padding", zero))]
    IN  [box EXCEPT !.dimensions =
            [d1 EXCEPT
                !.content.x = containing_block.content.x + d1.margin.left
                              + d1.border.left + d1.padding.left,
                !.content.y = containing_block.content.height
                              + containing_block.content.y]]

\* LayoutBox::calculate_block_position
calculate_block_position(box, containing_block) ==
    IF IsPanic(get_style_node(box)) THEN get_style_node(box)
    ELSE
    LET style == get_style_node(box)
        d1 == [box.dimensions EXCEPT
                !.margin.top = to_px(lookup(style, "margin-top", "margin", zero)),
                !.margin.bottom = to_px(lookup(style, "margin-bottom", "margin", zero)),
                !.border.top =
                    to_px(lookup(style, "border-top-width", "border-width", zero)),
                !.border.bottom =
                    to_px(lookup(style, "border-bottom-width", "border-width", zero)),
                !.padding.top = to_px(lookup(style, "padding-top", "padding", zero)),
                !.padding.bottom =
                    to_px(lookup(style, "padding-bottom", "padding", zero))]
    IN  [box EXCEPT !.dimensions =
            [d1 EXCEPT
                !.content.x = containing_block.content.x + d1.margin.left
                              + d1.border.left + d1.padding.left,
                !.content.y = containing_block.content.height
                              + containing_block.content.y
                              + d1.margin.top + d1.border.top + d1.padding.top]]

\* a faulty variant of calculate_block_height: the declared height is added to the
\* height of the children
calculate_block_height_added(box) ==
    LET h == value(get_style_node(box), "height")
    IN  IF h # None /\ h[1].t = "Length"
        THEN [box EXCEPT !.dimensions.content.height = @ + h[1].n]
        ELSE box

\* LayoutBox::calculate_block_height
calculate_block_height(box) ==
    IF IsPanic(get_style_node(box)) THEN get_style_node(box)
    ELSE
    LET h == value(get_style_node(box), "height")
    IN  IF h # None /\ h[1].t = "Length"
        THEN [box EXCEPT !.dimensions.content.height = h[1].n]
        ELSE box

RECURSIVE layout(_, _)

\* a faulty variant of layout_child: the parent's height does not advance
layout_child_noAdvance(box, i) ==
    [box EXCEPT !.children[i] = layout(box.children[i], box.dimensions)]

\* one turn of the loop of layout_block_children, on the i-th child; a panic
\* of the child's layout unwinds through the loop
layout_child(box, i) ==
    LET child == layout(box.children[i], box.dimensions)
    IN  IF IsPanic(child) THEN child
        ELSE [box EXCEPT
                !.children[i] = child,
                !.dimensions.content.height =
                    @ + margin_box(child.dimensions).height]

\* LayoutBox::layout_block_children, from the i-th child on
RECURSIVE layout_block_children(_, _)
layout_block_children(box, i) ==
    IF IsPanic(box) THEN box
    ELSE IF i > Len(box.children) THEN box
    ELSE layout_block_children(layout_child(box, i), i + 1)

\* LayoutBox::layout_block
layout_block(box, containing_block) ==
    IF IsPanic(get_style_node(box)) THEN get_style_node(box)
    ELSE
    LET laid == layout_block_children(
                    calculate_block_position(
                        calculate_block_width(box, containing_block),
                        containing_block),
                    1)
    IN  IF IsPanic(laid) THEN laid ELSE calculate_block_height(laid)

\* a faulty variant of layout: an inline box is laid out as a block
layout_inlineAsBlock(box, containing_block) ==
    IF box.box_type.t \in {"BlockNode", "InlineNode"}
    THEN layout_block(box, containing_block)
    ELSE box

\* a faulty variant of layout: an anonymous box is laid out as a block
layout_anonymousAsBlock(box, containing_block) ==
    IF box.box_type.t \in {"BlockNode", "AnonymousBlock"}
    THEN layout_block(box, containing_block)
    ELSE box

\* LayoutBox::layout
layout(box, containing_block) ==
    IF box.box_type.t = "BlockNode" THEN layout_block(box, containing_block)
    ELSE box

----------------------------------------------------------------------------
(* calculate_block_width applied to a fresh block box                      *)

HorizontalNames ==
    {"width", "margin-left", "margin-right", "margin",
     "border-left-width", "border-right-width", "border-width",
     "padding-left", "padding-right", "padding-left-width",
     "padding-right-width", "padding"}

HorizontalValues == {auto, Length(F32(SmallLen)), Length(F32(BigLen))}

\* the property maps that declare at most MaxDeclared of the names
PropertyMaps(names, values) ==
    UNION {[K -> values] :
            K \in {k \in SUBSET names : Cardinality(k) <= MaxDeclared}}

StyledLeaf(specified) == [specified_values |-> specified, children |-> <<>>]

ContainingBlock(w) == [DefaultDimensions EXCEPT !.content.width = w]

InitWidth ==
    /\ pc = "fresh_box"
    /\ elem = Unused
    /\ selector = Unused
    /\ stylesheet = Unused
    /\ result = Unused
    /\ dom_root = Unused
    /\ style_root \in {StyledLeaf(m) : m \in PropertyMaps(HorizontalNames, HorizontalValues)}
    /\ layout_root = LayoutBox_new(BlockNode(style_root))
    /\ viewport \in {ContainingBlock(F32(NarrowWidth)), ContainingBlock(F32(WideWidth))}
    /\ layouts = 0

CalculateBlockWidth ==
    /\ pc = "fresh_box"
    /\ pc' = "width_done"
    /\ layout_root' = calculate_block_width(layout_root, viewport)
    /\ UNCHANGED <<elem, selector, stylesheet, result, dom_root, style_root,
                   viewport, layouts>>

NextWidth == CalculateBlockWidth

SpecWidth == InitWidth /\ [][NextWidth]_vars

----------------------------------------------------------------------------
(* style.rs: style_tree, over dom.rs: Node.  A document node is the record *)
(*   [node_type |-> [t |-> "Element", data |-> ElementData]                *)
(*                  or [t |-> "Text", data |-> string],                    *)
(*    children |-> sequence of nodes].                                     *)

\* dom::elem, dom::text
dom_elem(name, attrs, children) ==
    [children |-> children,
     node_type |-> [t |-> "Element",
                    data |-> [tag_name |-> name, attributes |-> attrs]]]

dom_text(data) == [children |-> <<>>, node_type |-> [t |-> "Text", data |-> data]]

RECURSIVE style_tree(_, _)
style_tree(root, sheet) ==
    [specified_values |->
        IF root.node_type.t = "Element"
        THEN specified_values(root.node_type.data, sheet)
        ELSE EmptyMap,
     children |->
        [i \in 1..Len(root.children) |-> style_tree(root.children[i], sheet)]]

----------------------------------------------------------------------------
(* The pipeline of main.rs from the styled tree on: build_layout_tree,     *)
(* then layout against the viewport                                        *)

\* the styled trees of exactly n nodes, and the sequences of styled trees of
\* n nodes in all, with property maps taken from maps
RECURSIVE TreesOfSize(_, _), ForestsOfSize(_, _)
TreesOfSize(maps, n) ==
    IF n = 0 THEN {}
    ELSE {[specified_values |-> m, children |-> f] :
            m \in maps, f \in ForestsOfSize(maps, n - 1)}

ForestsOfSize(maps, n) ==
    IF n = 0 THEN {<<>>}
    ELSE UNION {{<<t>> \o f : t \in TreesOfSize(maps, k),
                              f \in ForestsOfSize(maps, n - k)} : k \in 1..n}

\* the maps that give each name of V one of its values V[name], or none
MapsOf(V) ==
    UNION {{m \in [K -> UNION {V[k] : k \in K}] : \A k \in K : m[k] \in V[k]} :
            K \in SUBSET (DOMAIN V)}

TreeMaps ==
    MapsOf([display |-> {Keyword("block"), Keyword("none"), Keyword("inline")},
            height |-> {Length(F32(BigLen))}])

StackChildMaps ==
    MapsOf("display" :> {Keyword("block")}
           @@ "height" :> {Length(F32(BigLen))}
           @@ "margin-top" :> {Length(F32(SmallLen))}
           @@ "border-top-width" :> {Length(F32(BigLen))}
           @@ "padding-top" :> {Length(F32(SmallLen))})

StackRootMaps ==
    {m \in MapsOf("display" :> {Keyword("block")}
                  @@ "height" :> {Length(F32(SmallLen))}) :
        "display" \in DOMAIN m}

\* the viewport of the tree specifications: some width, and a height and an
\* origin that are not 0
TreeViewport ==
    [DefaultDimensions EXCEPT !.content.width = F32(WideWidth),
                              !.content.height = F32(BigLen),
                              !.content.x = F32(SmallLen)]

InitTreeWith(trees, viewports) ==
    /\ pc = "styled"
    /\ elem = Unused
    /\ selector = Unused
    /\ stylesheet = Unused
    /\ result = Unused
    /\ dom_root = Unused
    /\ style_root \in trees
    /\ layout_root = Unused
    /\ viewport \in viewports
    /\ layouts = 0

\* styled trees of up to MaxNodes nodes
InitLayout ==
    InitTreeWith(UNION {TreesOfSize(TreeMaps, n) : n \in 1..MaxNodes},
                 {TreeViewport})

\* a block root with up to MaxStackChildren children without children
InitStack ==
    InitTreeWith({[specified_values |-> m, children |-> c] :
                    m \in StackRootMaps,
                    c \in SeqsUpTo({StyledLeaf(cm) : cm \in StackChildMaps},
                                   MaxStackChildren)},
                 {TreeViewport})

\* layout::build_layout_tree(&style_root); a panic ends the run with no tree
BuildLayoutTree ==
    /\ pc = "styled"
    /\ IF IsPanic(build_layout_tree(style_root))
       THEN /\ pc' = "panicked"
            /\ result' = build_layout_tree(style_root)
            /\ UNCHANGED layout_root
       ELSE /\ pc' = "built"
            /\ layout_root' = build_layout_tree(style_root)
            /\ UNCHANGED result
    /\ UNCHANGED <<elem, selector, stylesheet, dom_root, style_root,
                   viewport, layouts>>

\* layout_root.layout(viewport); a panic ends the run
Layout ==
    /\ pc \in {"built", "laid_out"}
    /\ layouts < MaxLayouts
    /\ layouts' = layouts + 1
    /\ IF IsPanic(layout(layout_root, viewport))
       THEN /\ pc' = "panicked"
            /\ result' = layout(layout_root, viewport)
            /\ UNCHANGED layout_root
       ELSE /\ pc' = "laid_out"
            /\ layout_root' = layout(layout_root, viewport)
            /\ UNCHANGED result
    /\ UNCHANGED <<elem, selector, stylesheet, dom_root, style_root, viewport>>

NextLayout == BuildLayoutTree \/ Layout

SpecLayout == InitLayout /\ [][NextLayout]_vars

SpecStack == InitStack /\ [][NextLayout]_vars

\* the styles of the height specification: a display, a declared height that
\* is a positive length, a negative length (a StyledNode can hold one, though
\* css::parse makes none) or a keyword, and a margin on every side
HeightMaps ==
    MapsOf("display" :> {Keyword("block")}
           @@ "height" :> {Length(F32(BigLen)), Length(0 - F32(SmallLen)),
                           Keyword("auto")}
           @@ "margin" :> {Length(F32(SmallLen))})

\* styled trees of up to MaxHeightNodes nodes with those styles
InitHeight ==
    InitTreeWith(UNION {TreesOfSize(HeightMaps, n) : n \in 1..MaxHeightNodes},
                 {TreeViewport})

SpecHeight == InitHeight /\ [][NextLayout]_vars

----------------------------------------------------------------------------
(* StyledNode::display applied to a styled node                            *)

DisplayMaps ==
    MapsOf([display |-> {Keyword("block"), Keyword("none"), Keyword("inline"),
                         Keyword("Block"), Keyword("auto"), Keyword(""),
                         Length(0), Length(F32(SmallLen)),
                         ColorValue("ff0000")},
            width |-> {Keyword("block"), Keyword("none"), Length(F32(BigLen))},
            block |-> {Keyword("display"), Keyword("none")}])

InitDisplay ==
    /\ pc = "styled_node"
    /\ elem = Unused
    /\ selector = Unused
    /\ stylesheet = Unused
    /\ result = Unused
    /\ dom_root = Unused
    /\ style_root \in {StyledLeaf(m) : m \in DisplayMaps}
    /\ layout_root = Unused
    /\ viewport = Unused
    /\ layouts = 0

Display ==
    /\ pc = "styled_node"
    /\ pc' = "displayed"
    /\ result' = display(style_root)
    /\ UNCHANGED <<elem, selector, stylesheet, dom_root, style_root,
                   layout_root, viewport, layouts>>

NextDisplay == Display

SpecDisplay == InitDisplay /\ [][NextDisplay]_vars

----------------------------------------------------------------------------
(* The whole pipeline of main.rs: style_tree, build_layout_tree, layout    *)

DocAttrMaps == AttrMaps({"a"}, {<<"w">>})

\* the documents of up to n levels below the root element
RECURSIVE NodesOfDepth(_)
NodesOfDepth(n) ==
    IF n = 0
    THEN {dom_text("x")}
         \cup {dom_elem(t, a, <<>>) : t \in TagNames, a \in DocAttrMaps}
    ELSE {dom_text("x")}
         \cup {dom_elem(t, a, c) : t \in TagNames, a \in DocAttrMaps,
                                   c \in SeqsUpTo(NodesOfDepth(n - 1), 1)}

Documents == {d \in NodesOfDepth(MaxDomDepth) : d.node_type.t = "Element"}

SimpleSelector(tag_name, i, class) == [tag_name |-> tag_name, id |-> i, class |-> class]

Declaration(name, v) == [name |-> name, value |-> v]

\* #a { width: 100px; margin: auto; }   .w { background: #ff0000; }
\* p { display: block; height: 20px; }  div { display: block; }
BaseRules ==
    << [selectors |-> <<SimpleSelector(None, Some("a"), <<>>)>>,
        declarations |-> <<Declaration("width", Length(F32(100))),
                           Declaration("margin", Keyword("auto"))>>],
       [selectors |-> <<SimpleSelector(None, None, <<(<<"w">>)>>)>>,
        declarations |-> <<Declaration("background", ColorValue("ff0000"))>>],
       [selectors |-> <<SimpleSelector(Some("p"), None, <<>>)>>,
        declarations |-> <<Declaration("display", Keyword("block")),
                           Declaration("height", Length(F32(20)))>>],
       [selectors |-> <<SimpleSelector(Some("div"), None, <<>>)>>,
        declarations |-> <<Declaration("display", Keyword("block"))>> ] >>

\* the rules of q kept by keep, in their order
RECURSIVE Filtered(_, _, _)
Filtered(q, keep, i) ==
    IF i > Len(q) THEN <<>>
    ELSE (IF keep[i] THEN <<q[i]>> ELSE <<>>) \o Filtered(q, keep, i + 1)

\* the stylesheets made of some of the base rules
BaseStyleSheets ==
    {Filtered(BaseRules, keep, 1) : keep \in [1..Len(BaseRules) -> BOOLEAN]}

\* main.rs: the viewport, and the same viewport with a content height of 0
Viewports ==
    {[DefaultDimensions EXCEPT !.content.width = F32(ViewportWidth),
                               !.content.height = h] :
        h \in {0, F32(ViewportHeight)}}

Init ==
    /\ pc = "parsed"
    /\ elem = Unused
    /\ selector = Unused
    /\ stylesheet \in BaseStyleSheets
    /\ result = Unused
    /\ dom_root \in Documents
    /\ style_root = Unused
    /\ layout_root = Unused
    /\ viewport \in Viewports
    /\ layouts = 0

\* style::style_tree(&root_node, &stylesheet)
StyleTree ==
    /\ pc = "parsed"
    /\ pc' = "styled"
    /\ style_root' = style_tree(dom_root, stylesheet)
    /\ UNCHANGED <<elem, selector, stylesheet, result, dom_root, layout_root,
                   viewport, layouts>>

Next == StyleTree \/ BuildLayoutTree \/ Layout

Spec == Init /\ [][Next]_vars

----------------------------------------------------------------------------
(* PROPERTIES                                                              *)
----------------------------------------------------------------------------

(* Helpers of the statements about the cascade, written from the wording   *)
(* of the statements and not from specified_values.                        *)

\* the rules of the stylesheet with a selector that matches elem
MatchingRuleIndexes ==
    {r \in 1..Len(stylesheet) :
        \E i \in 1..Len(stylesheet[r].selectors) :
            matches(elem, stylesheet[r].selectors[i])}

\* the specificity of rule r's matching selector (the highest, if several match)
RuleSpecificity(r) ==
    LET S == {specificity(stylesheet[r].selectors[i]) :
                i \in {j \in 1..Len(stylesheet[r].selectors) :
                        matches(elem, stylesheet[r].selectors[j])}}
    IN  CHOOSE s \in S : \A t \in S : CmpSpecificity(t, s) # "Greater"

Declares(r, name) ==
    \E d \in 1..Len(stylesheet[r].declarations) :
        stylesheet[r].declarations[d].name = name

\* the value of rule r's last declaration of name
LastDeclared(r, name) ==
    LET D == {d \in 1..Len(stylesheet[r].declarations) :
                stylesheet[r].declarations[d].name = name}
    IN  stylesheet[r].declarations[CHOOSE d \in D : \A e \in D : e <= d].value

\* the matching rules that declare name
Setters(name) == {r \in MatchingRuleIndexes : Declares(r, name)}

\* among the setters of name: highest specificity, then latest in the stylesheet
Winner(name) ==
    CHOOSE r \in Setters(name) :
        \A q \in Setters(name) :
            \/ CmpSpecificity(RuleSpecificity(q), RuleSpecificity(r)) = "Less"
            \/ /\ CmpSpecificity(RuleSpecificity(q), RuleSpecificity(r)) = "Equal"
               /\ q <= r

\* C2: the property map holds exactly the names set by a matching rule, and
\* maps each to the last declaration of that name in the matching rule of
\* highest specificity, the latest such rule of the stylesheet when several
\* share that specificity.
C2_CascadeOrdering ==
    pc = "specified" =>
        /\ DOMAIN result = {n \in PropertyNames : Setters(n) # {}}
        /\ \A n \in DOMAIN result : result[n] = LastDeclared(Winner(n), n)

\* C2 witness: two rules match and set color, the first with the higher
\* specificity and two declarations of color; its second declaration is kept.
C2_Witness ==
    /\ pc = "specified"
    /\ Len(stylesheet) = 2
    /\ Setters("color") = {1, 2}
    /\ CmpSpecificity(RuleSpecificity(1), RuleSpecificity(2)) = "Greater"
    /\ Len(stylesheet[1].selectors) = 2
    /\ Len(stylesheet[1].declarations) = 2
    /\ stylesheet[1].declarations[1].name = "color"
    /\ result["color"] = DeclarationValue(1, 2)

HasId(s) == s.id # None

\* C8: the specificity of a selector is (id count, class count, tag count)
\* with id and tag counts 0 or 1; a selector with an id compares Greater than
\* any selector without one; and when a matching rule whose selector has an
\* id sets a property, the property map takes that property from such a rule,
\* whatever the matching rules without an id declare.
C8_SpecificityLexicographic ==
    /\ \A s \in UNION {SeqToSet(stylesheet[r].selectors) : r \in 1..Len(stylesheet)} :
          specificity(s) = <<IF s.id = None THEN 0 ELSE 1,
                             Len(s.class),
                             IF s.tag_name = None THEN 0 ELSE 1>>
    /\ \A r1, r2 \in 1..Len(stylesheet) :
          \A i1 \in 1..Len(stylesheet[r1].selectors) :
          \A i2 \in 1..Len(stylesheet[r2].selectors) :
             (HasId(stylesheet[r1].selectors[i1]) /\ ~HasId(stylesheet[r2].selectors[i2]))
             => CmpSpecificity(specificity(stylesheet[r1].selectors[i1]),
                               specificity(stylesheet[r2].selectors[i2])) = "Greater"
    /\ pc = "specified" =>
          \A n \in PropertyNames :
             (\E r \in Setters(n) : HasId(stylesheet[r].selectors[1]))
             => \E r \in Setters(n) :
                   /\ HasId(stylesheet[r].selectors[1])
                   /\ result[n] = LastDeclared(r, n)

\* C8 witness: the rule `#a` comes first and a rule without an id, with a tag
\* and MaxClasses + 1 classes, comes second; both match and set color, and the
\* value of the first is kept.
C8_Witness ==
    /\ pc = "specified"
    /\ Len(stylesheet) = 2
    /\ Setters("color") = {1, 2}
    /\ specificity(stylesheet[1].selectors[1]) = <<1, 0, 0>>
    /\ specificity(stylesheet[2].selectors[1]) = <<0, MaxClasses + 1, 1>>
    /\ result["color"] = LastDeclared(1, "color")

(* Helpers of the statement about selector matching.                       *)

\* t is one of the pieces of s between two spaces (or an end of s)
IsToken(t, s) ==
    /\ \A k \in 1..Len(t) : t[k] # " "
    /\ \E a \in 1..(Len(s) + 1) :
          /\ a + Len(t) - 1 <= Len(s)
          /\ SubSeq(s, a, a + Len(t) - 1) = t
          /\ (a = 1 \/ s[a - 1] = " ")
          /\ (a + Len(t) - 1 = Len(s) \/ s[a + Len(t)] = " ")

TagConstraintHolds ==
    selector.tag_name = None \/ selector.tag_name = Some(elem.tag_name)

IdConstraintHolds ==
    \/ selector.id = None
    \/ /\ "id" \in DOMAIN elem.attributes
       /\ selector.id = Some(elem.attributes["id"])

ClassConstraintHolds ==
    \A i \in 1..Len(selector.class) :
        /\ "class" \in DOMAIN elem.attributes
        /\ IsToken(selector.class[i], elem.attributes["class"])

\* C9: matches_simple_selector returns true exactly when the tag constraint
\* is absent or equals the tag name, the id constraint is absent or equals
\* the id attribute, and every class of the selector is a token of the
\* space-separated class attribute (no token when the attribute is missing);
\* a selector without constraints matches every element.
C9_SelectorMatching ==
    pc = "matched" =>
        /\ result = (TagConstraintHolds /\ IdConstraintHolds /\ ClassConstraintHolds)
        /\ (selector = [tag_name |-> None, id |-> None, class |-> <<>>]
                => result = TRUE)

\* C9 witness: a selector with a tag, an id and two different classes matches
C9_Witness ==
    /\ pc = "matched"
    /\ result = TRUE
    /\ selector.tag_name # None
    /\ selector.id # None
    /\ Len(selector.class) = 2
    /\ selector.class[1] # selector.class[2]

(* Helpers of the statements about calculate_block_width.  The values are  *)
(* those the style declares, found as the specification words the lookup.  *)

Declared(name) == name \in DOMAIN style_root.specified_values

DeclaredOr(name, shorthand) ==
    IF Declared(name) THEN style_root.specified_values[name]
    ELSE IF Declared(shorthand) THEN style_root.specified_values[shorthand]
    ELSE Length(0)

WidthIsAuto == ~Declared("width") \/ style_root.specified_values["width"] = auto
MarginLeftIsAuto == DeclaredOr("margin-left", "margin") = auto
MarginRightIsAuto == DeclaredOr("margin-right", "margin") = auto

Px(v) == IF v.t = "Length" THEN v.n ELSE 0

\* the pixel sum of width, margins, borders and paddings that the box stores
StoredTotal ==
    LET d == layout_root.dimensions
    IN  d.content.width + d.margin.left + d.margin.right
        + d.border.left + d.border.right + d.padding.left + d.padding.right

\* the pixel sum of the declared width, margins, borders and paddings: the
\* stored borders and paddings are the declared ones, a declared width is
\* stored as it is, and auto counts for 0
DeclaredTotal ==
    LET d == layout_root.dimensions
    IN  (IF WidthIsAuto THEN 0 ELSE Px(style_root.specified_values["width"]))
        + Px(DeclaredOr("margin-left", "margin"))
        + Px(DeclaredOr("margin-right", "margin"))
        + d.border.left + d.border.right + d.padding.left + d.padding.right

Underflow == viewport.content.width - DeclaredTotal

\* the five arms of the match, as patterns over
\* (width == auto, margin_left == auto, margin_right == auto)
WidthPatterns ==
    {<<{FALSE}, {FALSE}, {FALSE}>>, <<{FALSE}, {FALSE}, {TRUE}>>,
     <<{FALSE}, {TRUE}, {FALSE}>>, <<{TRUE}, BOOLEAN, BOOLEAN>>,
     <<{FALSE}, {TRUE}, {TRUE}>>}

PatternsMatching(a, b, c) ==
    {q \in WidthPatterns : a \in q[1] /\ b \in q[2] /\ c \in q[3]}

\* C3: exactly one of the five arms matches every combination of auto and
\* fixed width and margins, and when the width is not auto and the declared
\* total does not exceed the containing block's content width, the stored
\* content width, margins, borders and paddings add up to that width.
C3_WidthResolution ==
    /\ \A a, b, c \in BOOLEAN : Cardinality(PatternsMatching(a, b, c)) = 1
    /\ pc = "width_done" =>
        /\ Cardinality(PatternsMatching(WidthIsAuto, MarginLeftIsAuto,
                                        MarginRightIsAuto)) = 1
        /\ (~WidthIsAuto /\ DeclaredTotal <= viewport.content.width)
              => StoredTotal = viewport.content.width

\* C3 witness: fixed width and margins with borders and paddings, narrower
\* than the containing block, so that margin-right absorbs the underflow
C3_Witness ==
    /\ pc = "width_done"
    /\ ~WidthIsAuto /\ ~MarginLeftIsAuto /\ ~MarginRightIsAuto
    /\ layout_root.dimensions.border.left > 0
    /\ layout_root.dimensions.padding.right > 0
    /\ layout_root.dimensions.margin.left > 0
    /\ Underflow > 0
    /\ layout_root.dimensions.margin.right = F32(SmallLen) + Underflow

BothMarginsAutoFixedWidth ==
    /\ pc = "width_done"
    /\ Declared("width") /\ style_root.specified_values["width"].t = "Length"
    /\ MarginLeftIsAuto /\ MarginRightIsAuto

\* C4 as stated: with a fixed width and both margins auto, margin-left and
\* margin-right are both resolved to underflow / 2.
C4_AutoMarginSymmetry_Original ==
    BothMarginsAutoFixedWidth =>
        /\ layout_root.dimensions.margin.left = layout_root.dimensions.margin.right
        /\ 2 * layout_root.dimensions.margin.left = Underflow

\* C4 amended: with a fixed width and both margins auto, and a declared total
\* that does not exceed the containing block's content width, margin-left and
\* margin-right are both resolved to underflow / 2.
C4_AutoMarginSymmetry ==
    (BothMarginsAutoFixedWidth /\ DeclaredTotal <= viewport.content.width) =>
        /\ layout_root.dimensions.margin.left = layout_root.dimensions.margin.right
        /\ 2 * layout_root.dimensions.margin.left = Underflow

\* C4 witness: a fixed width, both margins auto, a border, and room to spare
C4_Witness ==
    /\ BothMarginsAutoFixedWidth
    /\ DeclaredTotal < viewport.content.width
    /\ layout_root.dimensions.border.left > 0
    /\ layout_root.dimensions.margin.left > 0
    /\ layout_root.dimensions.margin.left = layout_root.dimensions.margin.right

(* Helpers of the statements about the box tree.                           *)

\* the boxes of the tree of box
RECURSIVE AllBoxes(_)
AllBoxes(box) ==
    {box} \cup UNION {AllBoxes(box.children[i]) : i \in 1..Len(box.children)}

\* the styled nodes of the boxes of the tree of box, in pre-order
RECURSIVE StyledNodesOf(_)
RECURSIVE StyledNodesOfAll(_)
StyledNodesOf(box) == box.box_type.node \o StyledNodesOfAll(box.children)
StyledNodesOfAll(boxes) ==
    IF boxes = <<>> THEN <<>>
    ELSE StyledNodesOf(Head(boxes)) \o StyledNodesOfAll(Tail(boxes))

DisplayIsNone(node) ==
    /\ "display" \in DOMAIN node.specified_values
    /\ node.specified_values["display"] = Keyword("none")

\* the children of a node that are not display:none, in order
RECURSIVE WithoutNone(_)
WithoutNone(nodes) ==
    IF nodes = <<>> THEN <<>>
    ELSE (IF DisplayIsNone(Head(nodes)) THEN <<>> ELSE <<Head(nodes)>>)
         \o WithoutNone(Tail(nodes))

\* the styled tree with every display:none child removed, with its subtree
RECURSIVE Pruned(_)
Pruned(node) ==
    LET kept == WithoutNone(node.children)
    IN  [specified_values |-> node.specified_values,
         children |-> [i \in 1..Len(kept) |-> Pruned(kept[i])]]

\* the nodes of a styled tree in pre-order, display:none subtrees left out
RECURSIVE VisibleNodes(_)
RECURSIVE VisibleNodesOfAll(_)
VisibleNodes(node) == <<node>> \o VisibleNodesOfAll(WithoutNone(node.children))
VisibleNodesOfAll(nodes) ==
    IF nodes = <<>> THEN <<>>
    ELSE VisibleNodes(Head(nodes)) \o VisibleNodesOfAll(Tail(nodes))

\* a box tree without its references to styled nodes: the kind, the
\* property map and the dimensions of each box
RECURSIVE Geometry(_)
Geometry(box) ==
    [t |-> box.box_type.t,
     specified_values |->
        IF box.box_type.node = None THEN None
        ELSE Some(box.box_type.node[1].specified_values),
     dimensions |-> box.dimensions,
     children |-> [i \in 1..Len(box.children) |-> Geometry(box.children[i])]]

HasTree == pc \in {"built", "laid_out"}

\* C6: a display:none child and its subtree have no box, and the box tree,
\* before and after layout, has the kinds, heights and positions of the box
\* tree of the styled tree from which the display:none children are removed.
C6_DisplayNonePruning ==
    /\ HasTree => StyledNodesOf(layout_root) = VisibleNodes(style_root)
    /\ pc = "built" =>
          Geometry(layout_root) = Geometry(build_layout_tree(Pruned(style_root)))
    /\ (pc = "laid_out" /\ layouts = 1) =>
          Geometry(layout_root)
            = Geometry(layout(build_layout_tree(Pruned(style_root)), viewport))

\* C6 witness: a laid out block root whose first child is display:none and
\* has a block child with a height, and whose second child is a block with a
\* height: the root is as high as the second child alone.
C6_Witness ==
    /\ pc = "laid_out" /\ layouts = 1
    /\ layout_root.box_type.t = "BlockNode"
    /\ Len(style_root.children) = 2
    /\ DisplayIsNone(style_root.children[1])
    /\ Len(style_root.children[1].children) = 1
    /\ display(style_root.children[1].children[1]) = "Block"
    /\ "height" \in DOMAIN style_root.children[1].children[1].specified_values
    /\ display(style_root.children[2]) = "Block"
    /\ "height" \in DOMAIN style_root.children[2].specified_values
    /\ "height" \notin DOMAIN style_root.specified_values
    /\ Len(layout_root.children) = 1
    /\ layout_root.dimensions.content.height = F32(BigLen)

\* C7: display is Block exactly for Keyword("block"), None exactly for
\* Keyword("none"), and Inline for a missing property, any other keyword
\* and any value that is no keyword.
C7_DisplayDefault ==
    pc = "displayed" =>
        LET sv == style_root.specified_values
        IN  /\ result \in {"Block", "None", "Inline"}
            /\ result = "Block" <=>
                  ("display" \in DOMAIN sv /\ sv["display"] = Keyword("block"))
            /\ result = "None" <=>
                  ("display" \in DOMAIN sv /\ sv["display"] = Keyword("none"))
            /\ ("display" \notin DOMAIN sv) => result = "Inline"
            /\ ("display" \in DOMAIN sv /\ sv["display"].t # "Keyword")
                  => result = "Inline"

\* C7 witness: no display declaration, while another property has the value
\* block, gives Inline
C7_Witness ==
    /\ pc = "displayed"
    /\ "display" \notin DOMAIN style_root.specified_values
    /\ "width" \in DOMAIN style_root.specified_values
    /\ style_root.specified_values["width"] = Keyword("block")
    /\ result = "Inline"

\* the length of the longest prefix of nodes whose display is Inline
RECURSIVE InlinePrefix(_)
InlinePrefix(nodes) ==
    IF nodes = <<>> \/ display(Head(nodes)) # "Inline" THEN 0
    ELSE 1 + InlinePrefix(Tail(nodes))

\* the children a block box is to have for the visible children nodes of its
\* styled node: a block box per block child, one anonymous box per run of
\* inline children
RECURSIVE Grouped(_)
Grouped(nodes) ==
    IF nodes = <<>> THEN <<>>
    ELSE IF display(Head(nodes)) = "Block"
    THEN <<[t |-> "BlockNode", nodes |-> <<Head(nodes)>>]>> \o Grouped(Tail(nodes))
    ELSE LET n == InlinePrefix(nodes)
         IN  <<[t |-> "AnonymousBlock", nodes |-> SubSeq(nodes, 1, n)]>>
             \o Grouped(SubSeq(nodes, n + 1, Len(nodes)))

GroupedAs(box) ==
    LET g == Grouped(WithoutNone(box.box_type.node[1].children))
    IN  /\ Len(box.children) = Len(g)
        /\ \A i \in 1..Len(g) :
              /\ box.children[i].box_type.t = g[i].t
              /\ g[i].t = "BlockNode" =>
                    box.children[i].box_type.node = Some(g[i].nodes[1])
              /\ g[i].t = "AnonymousBlock" =>
                    [j \in 1..Len(box.children[i].children) |->
                        box.children[i].children[j].box_type]
                    = [j \in 1..Len(g[i].nodes) |-> InlineNode(g[i].nodes[j])]

\* C10: in the box tree, every child of a BlockNode box is a BlockNode or an
\* AnonymousBlock, no two adjacent children of a BlockNode box are both
\* AnonymousBlock, and the inline children of a run not broken by a block
\* child are, in document order, the children of one AnonymousBlock.
C10_AnonymousGrouping ==
    HasTree =>
        \A box \in AllBoxes(layout_root) :
            box.box_type.t = "BlockNode" =>
                /\ \A i \in 1..Len(box.children) :
                      box.children[i].box_type.t \in {"BlockNode", "AnonymousBlock"}
                /\ \A i \in 1..(Len(box.children) - 1) :
                      ~ /\ box.children[i].box_type.t = "AnonymousBlock"
                        /\ box.children[i + 1].box_type.t = "AnonymousBlock"
                /\ GroupedAs(box)

\* C10 witness: a block root with two inline children and then a block child
\* has an anonymous box of two inline boxes and then a block box
C10_Witness ==
    /\ pc = "built"
    /\ layout_root.box_type.t = "BlockNode"
    /\ Len(style_root.children) = 3
    /\ Len(layout_root.children) = 2
    /\ layout_root.children[1].box_type.t = "AnonymousBlock"
    /\ Len(layout_root.children[1].children) = 2
    /\ layout_root.children[2].box_type.t = "BlockNode"

(* Helpers of the statement about block stacking.                          *)

\* margin-top + border-top + padding-top of a box
TopEdges(box) ==
    box.dimensions.margin.top + box.dimensions.border.top + box.dimensions.padding.top

RECURSIVE SumOfHeights(_, _, _)
\* the margin-box heights of the children i..j-1 of box, added up
SumOfHeights(box, i, j) ==
    IF i >= j THEN 0
    ELSE margin_box(box.children[i].dimensions).height + SumOfHeights(box, i + 1, j)

LaidOutOnce == pc = "laid_out" /\ layouts = 1

AllChildrenAreBlocks ==
    \A i \in 1..Len(layout_root.children) :
        layout_root.children[i].box_type.t = "BlockNode"

\* C5 as stated: each child's content y is the content y of the child
\* before it plus the margin-box height of that child, whatever the styles.
C5_BlockStacking_Original ==
    (LaidOutOnce /\ AllChildrenAreBlocks) =>
        \A i \in 1..(Len(layout_root.children) - 1) :
            layout_root.children[i + 1].dimensions.content.y
              = layout_root.children[i].dimensions.content.y
                + margin_box(layout_root.children[i].dimensions).height

\* C5 amended: the margin boxes stack: for BlockNode children i < j of a laid
\* out block parent, the top of j's margin box is the top of i's margin box
\* plus the margin-box heights of the children from i to j - 1; so j's content
\* y is i's content y plus those heights plus the difference of the top edges
\* (margin-top + border-top + padding-top) of j and i.
C5_BlockStacking ==
    LaidOutOnce =>
        \A i, j \in 1..Len(layout_root.children) :
            (/\ i < j
             /\ layout_root.children[i].box_type.t = "BlockNode"
             /\ layout_root.children[j].box_type.t = "BlockNode") =>
                /\ margin_box(layout_root.children[j].dimensions).y
                     = margin_box(layout_root.children[i].dimensions).y
                       + SumOfHeights(layout_root, i, j)
                /\ layout_root.children[j].dimensions.content.y
                     = layout_root.children[i].dimensions.content.y
                       + SumOfHeights(layout_root, i, j)
                       + TopEdges(layout_root.children[j])
                       - TopEdges(layout_root.children[i])

\* C5 witness: three block children with three different top edges and
\* heights that are not 0; the second child's content y is not the first
\* child's content y plus the first child's margin-box height
C5_Witness ==
    /\ LaidOutOnce
    /\ Len(layout_root.children) = 3
    /\ AllChildrenAreBlocks
    /\ TopEdges(layout_root.children[1]) # TopEdges(layout_root.children[2])
    /\ TopEdges(layout_root.children[2]) # TopEdges(layout_root.children[3])
    /\ TopEdges(layout_root.children[1]) # TopEdges(layout_root.children[3])
    /\ \A i \in 1..3 : layout_root.children[i].dimensions.content.height > 0
    /\ layout_root.children[2].dimensions.content.y
         # layout_root.children[1].dimensions.content.y
           + margin_box(layout_root.children[1].dimensions).height

(* Helpers of the end-to-end example.                                      *)

\* <div id="a" class="w"><p>x</p></div>
ExampleDocument ==
    dom_elem("div", [k \in {"id", "class"} |-> IF k = "id" THEN "a" ELSE <<"w">>],
             <<dom_elem("p", EmptyMap, <<dom_text("x")>>)>>)

\* #a { width: 100px; margin: auto; } .w { background: #ff0000; }
\* p { display: block; height: 20px; }
ExampleStyleSheet == SubSeq(BaseRules, 1, 3)

\* the example's stylesheet followed by div { display: block; }
ExampleStyleSheetWithBlockDiv == BaseRules

ExampleLaidOut ==
    /\ LaidOutOnce
    /\ dom_root = ExampleDocument
    /\ viewport.content.x = 0 /\ viewport.content.y = 0
    /\ viewport.content.width = F32(ViewportWidth)

ExampleRect(y) == [x |-> F32(350), y |-> y, width |-> F32(100), height |-> F32(20)]

\* C1 as stated: for the example's document, stylesheet and 800 x 600
\* viewport, the outer box has content (350, 0, 100, 20) and margins of 350
\* left and right, and the p box has content (350, 0, 100, 20).
C1_EndToEnd_Original ==
    (/\ ExampleLaidOut
     /\ stylesheet = ExampleStyleSheet
     /\ viewport.content.height = F32(ViewportHeight)) =>
        /\ layout_root.dimensions.content = ExampleRect(0)
        /\ layout_root.dimensions.margin.left = F32(350)
        /\ layout_root.dimensions.margin.right = F32(350)
        /\ layout_root.children[1].dimensions.content = ExampleRect(0)

\* C1 amended: for the example's document and stylesheet the div declares no
\* display, so the outer box is an InlineNode and layout leaves every
\* dimension of the outer box and of the p box at 0.  With the rule
\* div { display: block; } added, the outer box has content x 350, width 100,
\* height 20 and margins of 350 left and right, and the p box content x 350,
\* width 100, height 20; the content y of both is the viewport's content
\* height: 600 for the 800 x 600 viewport, 0 for a viewport of height 0.
C1_EndToEnd ==
    ExampleLaidOut =>
        /\ stylesheet = ExampleStyleSheet =>
              /\ layout_root.box_type.t = "InlineNode"
              /\ layout_root.dimensions = DefaultDimensions
              /\ Len(layout_root.children) = 1
              /\ layout_root.children[1].box_type.t = "BlockNode"
              /\ layout_root.children[1].dimensions = DefaultDimensions
        /\ stylesheet = ExampleStyleSheetWithBlockDiv =>
              /\ layout_root.box_type.t = "BlockNode"
              /\ layout_root.dimensions.content = ExampleRect(viewport.content.height)
              /\ layout_root.dimensions.margin.left = F32(350)
              /\ layout_root.dimensions.margin.right = F32(350)
              /\ Len(layout_root.children) = 1
              /\ layout_root.children[1].box_type.t = "BlockNode"
              /\ layout_root.children[1].dimensions.content
                    = ExampleRect(viewport.content.height)

\* C1 witness: the example's document and stylesheet laid out in the
\* 800 x 600 viewport; the style tree gave the div its width and margin
C1_Witness ==
    /\ ExampleLaidOut
    /\ stylesheet = ExampleStyleSheet
    /\ viewport.content.height = F32(ViewportHeight)
    /\ style_root.specified_values["width"] = Length(F32(100))
    /\ style_root.specified_values["margin"] = auto
    /\ display(style_root.children[1]) = "Block"
    /\ layout_root.dimensions.content.width = 0

(* Helpers of the statement about a second call of layout.                 *)

LaidOutTwice == pc = "laid_out" /\ layouts = 2

\* the box tree as the first call of layout left it
AfterFirstLayout == layout(build_layout_tree(style_root), viewport)

\* C11: layout keeps no state across calls: after a second call of layout on
\* the same box tree with the same containing block, every box has the
\* dimensions it had after the first call.
C11_LayoutKeepsNoState ==
    LaidOutTwice => Geometry(layout_root) = Geometry(AfterFirstLayout)

(* Helpers of the statement about a display:none root.                     *)

\* some child of the root is display:none
SomeChildIsNone ==
    \E i \in 1..Len(style_root.children) : DisplayIsNone(style_root.children[i])

\* C12: build_layout_tree on a root whose display is None aborts with the
\* panic "Root node has display: none." and leaves no box tree, and on any
\* other root it returns a box tree, also when children or deeper
\* descendants are display:none: those are skipped without a panic.
C12_RootDisplayNoneFatal ==
    /\ pc = "panicked" =>
          /\ display(style_root) = "None"
          /\ result = Panic("Root node has display: none.")
          /\ layout_root = Unused
    /\ pc # "styled" =>
          /\ display(style_root) = "None" => pc = "panicked"
          /\ display(style_root) # "None" =>
                /\ pc \in {"built", "laid_out"}
                /\ result = Unused
                /\ ~IsPanic(layout_root)
                /\ \A b \in AllBoxes(layout_root) : ~IsPanic(b)

\* C12 witness: the build of a display:none root with a block child and a
\* display:none child has panicked
C12_Witness ==
    /\ pc = "panicked"
    /\ DisplayIsNone(style_root)
    /\ Len(style_root.children) = 2
    /\ display(style_root.children[1]) = "Block"
    /\ SomeChildIsNone
    /\ result = Panic("Root node has display: none.")

(* Helpers of the statement about the two-level lookup.                    *)

\* the stored margins are the looked-up ones where calculate_block_width
\* does not resolve them: margin-left when it is not auto, and both margins,
\* auto counting for 0, when the width is auto and the underflow is not
\* negative
MarginsFollowLookup ==
    pc = "width_done" =>
        /\ ~MarginLeftIsAuto =>
              layout_root.dimensions.margin.left
                = Px(DeclaredOr("margin-left", "margin"))
        /\ (WidthIsAuto /\ Underflow >= 0) =>
              /\ layout_root.dimensions.margin.left
                   = Px(DeclaredOr("margin-left", "margin"))
              /\ layout_root.dimensions.margin.right
                   = Px(DeclaredOr("margin-right", "margin"))

BordersFollowLookup ==
    pc = "width_done" =>
        /\ layout_root.dimensions.border.left
             = Px(DeclaredOr("border-left-width", "border-width"))
        /\ layout_root.dimensions.border.right
             = Px(DeclaredOr("border-right-width", "border-width"))

PaddingsFollowLookup ==
    pc = "width_done" =>
        /\ layout_root.dimensions.padding.left
             = Px(DeclaredOr("padding-left", "padding"))
        /\ layout_root.dimensions.padding.right
             = Px(DeclaredOr("padding-right", "padding"))

\* C13: each of margin-left, margin-right, border-left-width,
\* border-right-width, padding-left and padding-right is the value of that
\* property when the style declares it, else of the shorthand (margin,
\* border-width, padding) when declared, else 0px; so a declared padding-left
\* or padding-right overrides a declared padding in the stored dimensions.
C13_TwoLevelLookup ==
    MarginsFollowLookup /\ BordersFollowLookup /\ PaddingsFollowLookup

(* Helpers of the statement about an auto width.                           *)

AutoWidthDone == pc = "width_done" /\ WidthIsAuto

\* C14: with an auto width every auto margin is resolved to 0; the content
\* width is the underflow when that is not negative, and else 0 with
\* margin-right its resolved value plus the underflow; so the content width
\* is never negative and margin-left is the declared one in both cases.
C14_WidthAuto ==
    AutoWidthDone =>
        /\ layout_root.dimensions.margin.left
             = Px(DeclaredOr("margin-left", "margin"))
        /\ MarginLeftIsAuto => layout_root.dimensions.margin.left = 0
        /\ Underflow >= 0 =>
              /\ layout_root.dimensions.content.width = Underflow
              /\ layout_root.dimensions.margin.right
                   = Px(DeclaredOr("margin-right", "margin"))
              /\ MarginRightIsAuto => layout_root.dimensions.margin.right = 0
        /\ Underflow < 0 =>
              /\ layout_root.dimensions.content.width = 0
              /\ layout_root.dimensions.margin.right
                   = Px(DeclaredOr("margin-right", "margin")) + Underflow
        /\ layout_root.dimensions.content.width >= 0

\* C14 witness: an auto width, an auto margin-left and a margin-right wider
\* than the containing block: the width is 0 and margin-right took the
\* negative underflow
C14_Witness ==
    /\ AutoWidthDone
    /\ Declared("margin-left") /\ MarginLeftIsAuto
    /\ Px(DeclaredOr("margin-right", "margin")) > viewport.content.width
    /\ Underflow < 0
    /\ layout_root.dimensions.content.width = 0
    /\ layout_root.dimensions.margin.left = 0
    /\ layout_root.dimensions.margin.right
         = Px(DeclaredOr("margin-right", "margin")) + Underflow

(* Helpers of the statement about the height of a block.                   *)

\* the boxes layout_block has run on: the BlockNode boxes reached from the
\* root through BlockNode boxes only
RECURSIVE LaidOutBoxes(_)
LaidOutBoxes(box) ==
    IF box.box_type.t # "BlockNode" THEN {}
    ELSE {box} \cup UNION {LaidOutBoxes(box.children[i]) :
                            i \in 1..Len(box.children)}

DeclaresPixelHeight(box) ==
    /\ "height" \in DOMAIN box.box_type.node[1].specified_values
    /\ box.box_type.node[1].specified_values["height"].t = "Length"

NoBlockChild(box) ==
    \A i \in 1..Len(box.children) : box.children[i].box_type.t # "BlockNode"

\* C15: after layout_block on a freshly built block box, the content height
\* is the declared height when the style declares a pixel length, negative
\* or not and whatever the children, and else the sum of the margin-box
\* heights of the box's direct children, which is 0 when no child is a block.
C15_BlockHeight ==
    LaidOutOnce =>
        \A b \in LaidOutBoxes(layout_root) :
            /\ DeclaresPixelHeight(b) =>
                  b.dimensions.content.height
                    = b.box_type.node[1].specified_values["height"].n
            /\ ~DeclaresPixelHeight(b) =>
                  /\ b.dimensions.content.height
                       = SumOfHeights(b, 1, Len(b.children) + 1)
                  /\ NoBlockChild(b) => b.dimensions.content.height = 0

\* C15 witness: a block root that declares a height, with a block child that
\* declares none and has a block child of negative height with margins: the
\* root has its declared height, the child the margin-box height of its child
C15_Witness ==
    /\ LaidOutOnce
    /\ layout_root.box_type.t = "BlockNode"
    /\ DeclaresPixelHeight(layout_root)
    /\ Len(layout_root.children) = 1
    /\ layout_root.children[1].box_type.t = "BlockNode"
    /\ ~DeclaresPixelHeight(layout_root.children[1])
    /\ Len(layout_root.children[1].children) = 1
    /\ layout_root.children[1].children[1].box_type.t = "BlockNode"
    /\ layout_root.children[1].children[1].dimensions.content.height < 0
    /\ layout_root.children[1].children[1].dimensions.margin.top > 0
    /\ layout_root.children[1].dimensions.content.height
         = margin_box(layout_root.children[1].children[1].dimensions).height
    /\ layout_root.children[1].dimensions.content.height > 0
    /\ layout_root.dimensions.content.height
         # margin_box(layout_root.children[1].dimensions).height

(* Helpers of the statement about inline and anonymous boxes.              *)

\* every box of the tree of box has the dimensions of a new box
AllZero(box) == \A c \in AllBoxes(box) : c.dimensions = DefaultDimensions

\* the children of box that are BlockNode boxes, in order
BlockChildrenOf(box) ==
    Filtered(box.children,
             [i \in 1..Len(box.children) |-> box.children[i].box_type.t = "BlockNode"],
             1)

\* C16: layout on an InlineNode or AnonymousBlock box changes no dimensions
\* of the box or of a box of its subtree, BlockNode descendants included: in
\* a built tree, before and after layout, they all have zero dimensions, a
\* tree with such a root is after layout the tree that was built, and such a
\* box has a margin-box height of 0 to add to its parent's height.
C16_InlineNoGeometry ==
    HasTree =>
        /\ \A b \in AllBoxes(layout_root) :
              b.box_type.t \in {"InlineNode", "AnonymousBlock"} =>
                  /\ AllZero(b)
                  /\ margin_box(b.dimensions).height = 0
        /\ layout_root.box_type.t \in {"InlineNode", "AnonymousBlock"} =>
              layout_root = build_layout_tree(style_root)
        /\ (LaidOutOnce /\ layout_root.box_type.t = "BlockNode"
            /\ ~DeclaresPixelHeight(layout_root)) =>
              layout_root.dimensions.content.height
                = SumOfHeights(
                    [layout_root EXCEPT !.children = BlockChildrenOf(layout_root)],
                    1, Len(BlockChildrenOf(layout_root)) + 1)

\* C16 witness: a laid out block root whose first child is an anonymous box
\* around an inline box that holds a block box with a declared height, and
\* whose second child is a block with a height: the root has the height of
\* its second child alone, and the block inside the inline box no geometry
C16_Witness ==
    /\ LaidOutOnce
    /\ layout_root.box_type.t = "BlockNode"
    /\ Len(layout_root.children) = 2
    /\ layout_root.children[1].box_type.t = "AnonymousBlock"
    /\ Len(layout_root.children[1].children) = 1
    /\ layout_root.children[1].children[1].box_type.t = "InlineNode"
    /\ Len(layout_root.children[1].children[1].children) = 1
    /\ layout_root.children[1].children[1].children[1].box_type.t = "BlockNode"
    /\ DeclaresPixelHeight(layout_root.children[1].children[1].children[1])
    /\ layout_root.children[1].children[1].children[1].dimensions = DefaultDimensions
    /\ layout_root.children[2].box_type.t = "BlockNode"
    /\ layout_root.children[2].dimensions.content.height > 0
    /\ ~DeclaresPixelHeight(layout_root)
    /\ layout_root.dimensions.content.height
         = layout_root.children[2].dimensions.content.height

(* Helpers of the statement about get_style_node.                          *)

HasAnonymousBox ==
    \E b \in AllBoxes(layout_root) : b.box_type.t = "AnonymousBlock"

\* C17: layout on the root of a tree made by build_layout_tree never calls
\* get_style_node on an AnonymousBlock box: no run ends with the panic
\* "Anonymous block box has no style node", the only panic of a run is the
\* one of the build, and every call of layout returns a box tree.
C17_NoAnonymousStyleNode ==
    /\ pc # "panicked" => result = Unused
    /\ pc = "panicked" =>
          /\ result.panic # "Anonymous block box has no style node"
          /\ layouts = 0
    /\ layouts > 0 =>
          /\ pc = "laid_out"
          /\ \A b \in AllBoxes(layout_root) : ~IsPanic(b)
          /\ \A b \in LaidOutBoxes(layout_root) :
                ~IsPanic(get_style_node(b))

\* C17 witness: layout has run twice on a block root that has an anonymous
\* box between two block children, and has given the last child a position
C17_Witness ==
    /\ LaidOutTwice
    /\ layout_root.box_type.t = "BlockNode"
    /\ Len(layout_root.children) = 3
    /\ layout_root.children[1].box_type.t = "BlockNode"
    /\ layout_root.children[2].box_type.t = "AnonymousBlock"
    /\ layout_root.children[3].box_type.t = "BlockNode"
    /\ HasAnonymousBox
    /\ layout_root.children[3].dimensions.content.width > 0
    /\ layout_root.children[3].dimensions.content.y > 0

====
